---- MODULE Spec2Model ----
(***************************************************************************)
(* Model of the order-execution core of Tradingbot406 (src/bot.py):        *)
(* TradingEngine.process_signal, TradingEngine._emergency_close, the       *)
(* helpers they call and the backoff.on_exception retry decorators that    *)
(* wrap them.  One step of the model is one exchange (gateway) call or one *)
(* assignment to current_position; the exchange is a nondeterministic      *)
(* environment that answers each call with a value or with a ccxt error.   *)
(***************************************************************************)
EXTENDS Integers, Sequences, FiniteSets, TLC

\* ------------------------------------------------------------------ bounds
\* number of process_signal / _emergency_close invocations in one behaviour
MaxRuns == 2
\* number of injected gateway failures when two threads run concurrently
ConcFaults == 1
\* number of injected gateway failures after a restart on a held position
RestartFaults == 1
\* largest inputs of the sizer checked on its own
MaxBalance == 12
MaxPrice == 3
MaxStep == 3
MaxMin == 4

\* ------------------------------------------------------- program constants
\* @on_exception(expo, ccxt.NetworkError, max_tries=5) on _load_market_info
LoadMaxTries == 5
\* @on_exception(expo, ccxt.NetworkError, max_tries=3) on _get_current_price
PriceMaxTries == 3
\* @on_exception(expo, ccxt.NetworkError, max_tries=3) on _get_available_balance
BalanceMaxTries == 3
\* @on_exception(expo, ccxt.NetworkError, max_tries=5) on _emergency_close
EcMaxTries == 5
\* risk_adjusted_balance = balance * 0.9, as a numerator over RiskDen
RiskNum == 9
RiskDen == 10
\* return balance * 0.999, as a numerator over FeeDen
FeeNum == 999
FeeDen == 1000

\* ------------------------------------------------------------ input sets
Threads == {"t1", "t2"}
\* the strings a caller may pass as signal; "hold" stands for any other string
Signals == {"buy", "sell", "hold"}
\* free quote balances the exchange may report (fetch_balance()['free'][quote])
Balances == {1, 20}
\* last prices the exchange may report (fetch_ticker()['last'])
Prices == {1, 2}
\* market_info['precision']['amount'] and market_info['limits']['amount']['min']
\* and market['active'], as load_markets()[symbol] may report them
MarketInfos == {[active |-> TRUE, step |-> 1, min |-> 1],
                [active |-> TRUE, step |-> 2, min |-> 10],
                [active |-> FALSE, step |-> 1, min |-> 1]}
\* self.market_info before _load_market_info has returned
NoMarket == [active |-> FALSE, step |-> 0, min |-> 0]
\* os.getenv("TRADING_SYMBOL", "DOGE/USDT")
TradingSymbol == "DOGE/USDT"
\* the positions the exchange may hold for the account
Positions == {"None", "buy", "sell"}
\* ccxt errors: NetworkError (retryable), InsufficientFunds, any other
\* ExchangeError; ValueError is the sizer's exception
ReadErrors == {"NetworkError", "ExchangeError"}
OrderErrors == {"NetworkError", "InsufficientFunds", "ExchangeError"}

VARIABLES
    current_position,   \* self.current_position: "None", "buy" or "sell"
    market_info,        \* self.market_info
    symbol,             \* self.symbol
    engine,             \* the progress of TradingEngine.__init__
    startup_position,   \* what the exchange holds when the engine starts
    sizer,              \* the sizer applied on its own to drawn inputs
    frame,              \* per thread: the locals and position of its invocation
    active,             \* the threads that deliver signals
    runs,               \* invocations started so far
    limited,            \* whether gateway failures are budgeted
    faults              \* remaining gateway failures when limited

vars == <<current_position, market_info, symbol, engine, startup_position,
          sizer, frame, active, runs, limited, faults>>

\* what no step of process_signal or _emergency_close touches
fixed == <<active, symbol, engine, startup_position, sizer>>

\* the local amount of _emergency_close before it is assigned
NoAmount == [num |-> 0, den |-> 1]

\* A thread that is not inside any invocation.  pc .. result are the control
\* state and the locals of the invocation; orders .. sizerRejected record what
\* the invocation has done so far.
IdleFrame ==
    [pc |-> "idle", op |-> "none", signal |-> "none", startPos |-> "None",
     ecCtx |-> "none", ecTries |-> 0, ioTries |-> 0,
     price |-> 0, amount |-> 0, ecBalance |-> 0, ecPrice |-> 0,
     ecAmount |-> NoAmount,
     pend |-> "none", result |-> "none",
     orders |-> <<>>, ecOpen |-> FALSE, ecSub |-> 0, ecAcc |-> 0,
     netCalls |-> 0, allNet |-> TRUE,
     ecCalls |-> 0, ecFailed |-> FALSE, sizerRejected |-> FALSE]

\* ---------------------------------------------------------- pure helpers

\* CalcAmount that rounds the amount up to the next step
CalcAmountRoundUp(bal, price, mi) ==
    ((bal * FeeNum * RiskNum + FeeDen * RiskDen * price * mi.step - 1)
        \div (FeeDen * RiskDen * price * mi.step)) * mi.step

\* _calculate_position_size: floor(balance*0.999*0.9/price/step)*step
CalcAmount(bal, price, mi) ==
    ((bal * FeeNum * RiskNum) \div (FeeDen * RiskDen * price * mi.step)) * mi.step

\* 'sell' if self.current_position == 'buy' else 'buy'
CloseSide(pos) == IF pos = "buy" THEN "sell" ELSE "buy"

\* amount = balance / price if self.current_position == 'sell' else balance,
\* where balance is free * 0.999: the fraction num / den
CloseAmount(pos, bal, price) ==
    IF pos = "sell" THEN [num |-> bal * FeeNum, den |-> FeeDen * price]
    ELSE [num |-> bal * FeeNum, den |-> FeeDen]

\* ------------------------------------------------- control continuations

\* a call of self._emergency_close() from the place ctx
EcEnter(f, ctx) ==
    [f EXCEPT !.pc = "ec_check", !.ecCtx = ctx, !.ecTries = 1,
              !.ecCalls = @ + 1, !.ecOpen = FALSE, !.ecSub = 0, !.ecAcc = 0]

\* the invocation ends with result r; its locals go out of scope
Finish(f, r) ==
    [f EXCEPT !.pc = "done", !.result = r, !.price = 0, !.amount = 0,
              !.ecBalance = 0, !.ecPrice = 0, !.ecAmount = NoAmount,
              !.ioTries = 0, !.ecTries = 0, !.pend = "none"]

\* the except clauses of process_signal, entered with exception e
PsExcept(f, e) ==
    IF e = "InsufficientFunds"
    THEN Finish(f, "False")
    ELSE IF e = "NetworkError"
    THEN Finish(f, "raise NetworkError")
    ELSE EcEnter(f, "handler")

\* _emergency_close returns normally to the place that called it
EcReturn(f0) ==
    LET f == [f0 EXCEPT !.ecBalance = 0, !.ecPrice = 0, !.ecAmount = NoAmount] IN
    CASE f.ecCtx = "direct" -> Finish(f, "None")
      [] f.ecCtx = "conflict" -> [f EXCEPT !.pc = "ps_price", !.ioTries = 1]
      [] f.ecCtx = "oco" -> PsExcept(f, f.pend)
      [] OTHER -> Finish(f, "False")

\* EcFail with a failed conflict close swallowed: the pipeline goes on
EcFailSwallow(f, e) ==
    LET g == [f EXCEPT !.ecFailed = TRUE] IN
    CASE f.ecCtx = "direct" -> Finish(g, "raise " \o e)
      [] f.ecCtx = "conflict" -> [g EXCEPT !.pc = "ps_price", !.ioTries = 1]
      [] f.ecCtx = "oco" -> PsExcept(g, e)
      [] OTHER -> Finish(g, "raise " \o e)

\* exception e leaves the decorated _emergency_close
EcFail(f, e) ==
    LET g == [f EXCEPT !.ecFailed = TRUE] IN
    CASE f.ecCtx = "direct" -> Finish(g, "raise " \o e)
      [] f.ecCtx = "conflict" -> PsExcept(g, e)
      [] f.ecCtx = "oco" -> PsExcept(g, e)
      [] OTHER -> Finish(g, "raise " \o e)

\* exception e leaves the body of _emergency_close: on_exception retries the
\* whole body on NetworkError until max_tries calls have been made
EcRaise(f0, e) ==
    LET f == [f0 EXCEPT !.ecBalance = 0, !.ecPrice = 0, !.ecAmount = NoAmount] IN
    IF e = "NetworkError" /\ f.ecTries < EcMaxTries
    THEN [f EXCEPT !.pc = "ec_check", !.ecTries = @ + 1]
    ELSE EcFail(f, e)

\* ------------------------------------------------------------ environment

CanFail == ~limited \/ faults > 0
Fail == faults' = IF limited THEN faults - 1 ELSE faults
NoFail == UNCHANGED faults

Running(p) == frame[p].pc \notin {"idle", "done"}

SetFrame(p, f) == frame' = [frame EXCEPT ![p] = f]

\* ------------------------------------------------------------------ Init

\* the sizer is not under test
SizerOff == [st |-> "off", balance |-> 0, price |-> 0, step |-> 0, min |-> 0,
             out |-> 0]

\* TradingEngine.__init__ has authenticated and read the symbol and is about
\* to load the market info
InitCommon ==
    /\ current_position = "None"
    /\ market_info = NoMarket
    /\ symbol = TradingSymbol
    /\ engine = [status |-> "new", tries |-> 1]
    /\ frame = [p \in Threads |-> IdleFrame]
    /\ runs = 0

Init ==
    /\ InitCommon
    /\ startup_position = "None"
    /\ sizer = SizerOff
    /\ active = {"t1"}
    /\ limited = FALSE
    /\ faults = 0

InitConc ==
    /\ InitCommon
    /\ startup_position = "None"
    /\ sizer = SizerOff
    /\ active = Threads
    /\ limited = TRUE
    /\ faults = ConcFaults

\* the engine is started while the exchange may hold a position
InitRestart ==
    /\ InitCommon
    /\ startup_position \in Positions
    /\ sizer = SizerOff
    /\ active = {"t1"}
    /\ limited = TRUE
    /\ faults = RestartFaults

\* the sizer on its own: inputs drawn, nothing else runs
InitSizer ==
    /\ InitCommon
    /\ startup_position = "None"
    /\ \E b \in 1..MaxBalance, pr \in 1..MaxPrice, st \in 1..MaxStep,
          mn \in 1..MaxMin :
          sizer = [st |-> "in", balance |-> b, price |-> pr, step |-> st,
                   min |-> mn, out |-> 0]
    /\ active = {}
    /\ limited = FALSE
    /\ faults = 0

\* --------------------------------------------------------------- actions

\* LoadResult that takes an inactive market as well
LoadResultAny(m) == "ready"

\* _load_market_info once load_markets answered with market m: an inactive
\* market raises RuntimeError and no engine comes to exist
LoadResult(m) == IF m.active THEN "ready" ELSE "inactive"

\* TradingEngine.__init__: self.market_info = self._load_market_info(), then
\* self.current_position = None
LoadMarketInfo ==
    /\ engine.status = "new"
    /\ \/ /\ NoFail
          /\ \E m \in MarketInfos :
               /\ engine' = [status |-> LoadResult(m), tries |-> 0]
               /\ market_info' = IF LoadResult(m) = "ready" THEN m
                                 ELSE market_info
       \/ /\ CanFail
          /\ Fail
          /\ \E e \in ReadErrors :
               engine' = IF e = "NetworkError" /\ engine.tries < LoadMaxTries
                         THEN [engine EXCEPT !.tries = @ + 1]
                         ELSE [status |-> "unreachable", tries |-> 0]
          /\ UNCHANGED market_info
    /\ current_position' = "None"
    /\ UNCHANGED <<symbol, startup_position, sizer, frame, active, runs,
                   limited>>

\* a caller invokes process_signal(s)
CallProcessSignal(p) ==
    /\ engine.status = "ready"
    /\ p \in active
    /\ ~Running(p)
    /\ runs < MaxRuns
    /\ \E s \in Signals :
         SetFrame(p, [IdleFrame EXCEPT !.pc = "ps_check",
                                       !.op = "process_signal",
                                       !.signal = s,
                                       !.startPos = current_position])
    /\ runs' = runs + 1
    /\ UNCHANGED <<current_position, market_info, fixed, limited, faults>>

\* a caller invokes _emergency_close()
CallEmergencyClose(p) ==
    /\ engine.status = "ready"
    /\ p \in active
    /\ ~Running(p)
    /\ runs < MaxRuns
    /\ SetFrame(p, EcEnter([IdleFrame EXCEPT !.op = "_emergency_close",
                                             !.startPos = current_position],
                           "direct"))
    /\ runs' = runs + 1
    /\ UNCHANGED <<current_position, market_info, fixed, limited, faults>>

\* PsCheck without the validation of the signal
PsCheckNoValidate(p) ==
    /\ frame[p].pc = "ps_check"
    /\ LET f == frame[p] IN
       IF current_position # "None" /\ current_position # f.signal
       THEN SetFrame(p, EcEnter(f, "conflict"))
       ELSE SetFrame(p, [f EXCEPT !.pc = "ps_price", !.ioTries = 1])
    /\ UNCHANGED <<current_position, market_info, fixed, runs, limited, faults>>

\* process_signal: signal validation and the conflict check
PsCheck(p) ==
    /\ frame[p].pc = "ps_check"
    /\ LET f == frame[p] IN
       IF f.signal \notin {"buy", "sell"}
       THEN SetFrame(p, Finish(f, "False"))
       ELSE IF current_position # "None" /\ current_position # f.signal
       THEN SetFrame(p, EcEnter(f, "conflict"))
       ELSE SetFrame(p, [f EXCEPT !.pc = "ps_price", !.ioTries = 1])
    /\ UNCHANGED <<current_position, market_info, fixed, runs, limited, faults>>

\* one attempt of a retry-guarded read failed with NetworkError: on_exception
\* calls again until maxTries calls have been made, then lets the error out
ReadRetry(f, maxTries) == f.ioTries < maxTries

\* history of one gateway call answered with err: while every answer of this
\* invocation has been a NetworkError, netCalls counts its gateway calls
Answered(f, err) ==
    IF f.allNet /\ err = "NetworkError"
    THEN [f EXCEPT !.netCalls = @ + 1]
    ELSE [f EXCEPT !.netCalls = 0, !.allNet = FALSE]

\* whether the exchange accepted an order it answered with err: an order
\* answered with a NetworkError may or may not have been accepted
Accepts(err) == IF err = "none" THEN {TRUE}
                ELSE IF err = "NetworkError" THEN {TRUE, FALSE}
                ELSE {FALSE}

Count(acc) == IF acc THEN 1 ELSE 0

\* the record of one create_order call of process_signal / _place_oco_order:
\* answered with err, and acc tells whether the exchange accepted the order
Order(kind, side, amount, err, acc) ==
    [kind |-> kind, ctx |-> "none", side |-> side, amount |-> amount,
     err |-> err, acc |-> acc]

Submitted(f, o) == [Answered(f, o.err) EXCEPT !.orders = Append(@, o)]

\* the record of the create_order calls of one _emergency_close invocation:
\* one entry of orders that holds the answer to its latest call, and the
\* counts ecSub / ecAcc of the calls it made / the exchange accepted; the
\* amount of the latest call is the local ecAmount
CloseSubmitted(f, side, err, acc) ==
    LET g == [Answered(f, err) EXCEPT !.ecSub = @ + 1,
                                      !.ecAcc = @ + Count(acc)]
        o == [kind |-> "close", ctx |-> f.ecCtx, side |-> side, amount |-> 0,
              err |-> err, acc |-> acc]
    IN
    IF f.ecOpen
    THEN [g EXCEPT !.orders[Len(f.orders)] = o]
    ELSE [g EXCEPT !.ecOpen = TRUE, !.orders = Append(@, o)]

\* EcCheck without the early return on a FLAT position
EcCheckNoGuard(p) ==
    /\ frame[p].pc = "ec_check"
    /\ SetFrame(p, [frame[p] EXCEPT !.pc = "ec_bal", !.ioTries = 1])
    /\ UNCHANGED <<current_position, market_info, fixed, runs, limited, faults>>

\* _emergency_close: if not self.current_position: return
EcCheck(p) ==
    /\ frame[p].pc = "ec_check"
    /\ LET f == frame[p] IN
       IF current_position = "None"
       THEN SetFrame(p, EcReturn(f))
       ELSE SetFrame(p, [f EXCEPT !.pc = "ec_bal", !.ioTries = 1])
    /\ UNCHANGED <<current_position, market_info, fixed, runs, limited, faults>>

\* _emergency_close: balance = self._get_available_balance()
EcBalance(p) ==
    /\ frame[p].pc = "ec_bal"
    /\ LET f == frame[p] IN
       \/ /\ NoFail
          /\ \E b \in Balances :
               SetFrame(p, [Answered(f, "none") EXCEPT
                              !.ecBalance = b, !.pc = "ec_price", !.ioTries = 1])
       \/ /\ CanFail
          /\ Fail
          /\ \E e \in ReadErrors :
               IF e = "NetworkError" /\ ReadRetry(f, BalanceMaxTries)
               THEN SetFrame(p, [Answered(f, e) EXCEPT !.ioTries = @ + 1])
               ELSE SetFrame(p, EcRaise(Answered(f, e), e))
    /\ UNCHANGED <<current_position, market_info, fixed, runs, limited>>

\* _emergency_close: price = self._get_current_price()
EcPrice(p) ==
    /\ frame[p].pc = "ec_price"
    /\ LET f == frame[p] IN
       \/ /\ NoFail
          /\ \E pr \in Prices :
               SetFrame(p, [Answered(f, "none") EXCEPT
                              !.ecPrice = pr, !.pc = "ec_order",
                              !.ecAmount = CloseAmount(current_position,
                                                       f.ecBalance, pr)])
       \/ /\ CanFail
          /\ Fail
          /\ \E e \in ReadErrors :
               IF e = "NetworkError" /\ ReadRetry(f, PriceMaxTries)
               THEN SetFrame(p, [Answered(f, e) EXCEPT !.ioTries = @ + 1])
               ELSE SetFrame(p, EcRaise(Answered(f, e), e))
    /\ UNCHANGED <<current_position, market_info, fixed, runs, limited>>

\* what _emergency_close does once create_order answered with err
AfterClose(f, err) ==
    IF err = "none" THEN [f EXCEPT !.pc = "ec_set"] ELSE EcRaise(f, err)

\* _emergency_close: self._execute_market_order(side=..., amount=amount)
EcOrder(p) ==
    /\ frame[p].pc = "ec_order"
    /\ LET f == frame[p]
           side == CloseSide(current_position)
       IN
       \/ /\ NoFail
          /\ SetFrame(p, AfterClose(CloseSubmitted(f, side, "none", TRUE),
                                    "none"))
       \/ /\ CanFail
          /\ Fail
          /\ \E e \in OrderErrors : \E acc \in Accepts(e) :
               SetFrame(p, AfterClose(CloseSubmitted(f, side, e, acc), e))
    /\ UNCHANGED <<current_position, market_info, fixed, runs, limited>>

\* _emergency_close: self.current_position = None, then return
EcSet(p) ==
    /\ frame[p].pc = "ec_set"
    /\ current_position' = "None"
    /\ SetFrame(p, EcReturn(frame[p]))
    /\ UNCHANGED <<market_info, fixed, runs, limited, faults>>

\* process_signal: price = self._get_current_price()
PsPrice(p) ==
    /\ frame[p].pc = "ps_price"
    /\ LET f == frame[p] IN
       \/ /\ NoFail
          /\ \E pr \in Prices :
               SetFrame(p, [Answered(f, "none") EXCEPT
                              !.price = pr, !.pc = "ps_bal", !.ioTries = 1])
       \/ /\ CanFail
          /\ Fail
          /\ \E e \in ReadErrors :
               IF e = "NetworkError" /\ ReadRetry(f, PriceMaxTries)
               THEN SetFrame(p, [Answered(f, e) EXCEPT !.ioTries = @ + 1])
               ELSE SetFrame(p, PsExcept(Answered(f, e), e))
    /\ UNCHANGED <<current_position, market_info, fixed, runs, limited>>

\* AfterSize without the raise: a rejected amount is ordered all the same
AfterSizeNoRaise(f, amt, mi) ==
    IF amt < mi.min
    THEN [f EXCEPT !.sizerRejected = TRUE, !.amount = amt, !.pc = "ps_order"]
    ELSE [f EXCEPT !.amount = amt, !.pc = "ps_order"]

\* _calculate_position_size once the balance is known: the minimum check
AfterSize(f, amt, mi) ==
    IF amt < mi.min
    THEN PsExcept([f EXCEPT !.sizerRejected = TRUE], "ValueError")
    ELSE [f EXCEPT !.amount = amt, !.pc = "ps_order"]

\* process_signal: amount, risk_capital = self._calculate_position_size(price)
PsSize(p) ==
    /\ frame[p].pc = "ps_bal"
    /\ LET f == frame[p] IN
       \/ /\ NoFail
          /\ \E b \in Balances :
               SetFrame(p, AfterSize(Answered(f, "none"),
                                     CalcAmount(b, f.price, market_info),
                                     market_info))
       \/ /\ CanFail
          /\ Fail
          /\ \E e \in ReadErrors :
               IF e = "NetworkError" /\ ReadRetry(f, BalanceMaxTries)
               THEN SetFrame(p, [Answered(f, e) EXCEPT !.ioTries = @ + 1])
               ELSE SetFrame(p, PsExcept(Answered(f, e), e))
    /\ UNCHANGED <<current_position, market_info, fixed, runs, limited>>

\* AfterEntry that takes a timed-out submission for a fill
AfterEntryAssumeFill(f, err) ==
    IF err \in {"none", "NetworkError"} THEN [f EXCEPT !.pc = "ps_set"]
    ELSE PsExcept(f, err)

\* what process_signal does once the entry create_order answered with err
AfterEntry(f, err) ==
    IF err = "none" THEN [f EXCEPT !.pc = "ps_set"] ELSE PsExcept(f, err)

\* process_signal: order = self._execute_market_order(signal, amount)
PsOrder(p) ==
    /\ frame[p].pc = "ps_order"
    /\ LET f == frame[p] IN
       \/ /\ NoFail
          /\ SetFrame(p, AfterEntry(
                Submitted(f, Order("entry", f.signal, f.amount, "none", TRUE)),
                "none"))
       \/ /\ CanFail
          /\ Fail
          /\ \E e \in OrderErrors : \E acc \in Accepts(e) :
               SetFrame(p, AfterEntry(
                  Submitted(f, Order("entry", f.signal, f.amount, e, acc)), e))
    /\ UNCHANGED <<current_position, market_info, fixed, runs, limited>>

\* PsSet that also reloads the market info once the entry is filled
PsSetReload(p) ==
    /\ frame[p].pc = "ps_set"
    /\ current_position' = frame[p].signal
    /\ SetFrame(p, [frame[p] EXCEPT !.pc = "oco_order"])
    /\ \E m \in MarketInfos : market_info' = m
    /\ UNCHANGED <<fixed, runs, limited, faults>>

\* process_signal: self.current_position = signal
PsSet(p) ==
    /\ frame[p].pc = "ps_set"
    /\ current_position' = frame[p].signal
    /\ SetFrame(p, [frame[p] EXCEPT !.pc = "oco_order"])
    /\ UNCHANGED <<market_info, fixed, runs, limited, faults>>

\* AfterOco without the self._emergency_close() of _place_oco_order
AfterOcoNoClose(f, err) ==
    IF err = "none" THEN Finish(f, "True")
    ELSE PsExcept([f EXCEPT !.pend = err], err)

\* AfterOco that reports success whatever the bracket order answered
AfterOcoAlwaysTrue(f, err) == Finish(f, "True")

\* what _place_oco_order and process_signal do once the bracket create_order
\* answered with err
AfterOco(f, err) ==
    IF err = "none" THEN Finish(f, "True")
    ELSE EcEnter([f EXCEPT !.pend = err], "oco")

\* _place_oco_order: create_order(type='STOP_LIMIT', side='sell', ...)
OcoOrder(p) ==
    /\ frame[p].pc = "oco_order"
    /\ LET f == frame[p] IN
       \/ /\ NoFail
          /\ SetFrame(p, AfterOco(
                Submitted(f, Order("oco", "sell", f.amount, "none", TRUE)),
                "none"))
       \/ /\ CanFail
          /\ Fail
          /\ \E e \in OrderErrors : \E acc \in Accepts(e) :
               SetFrame(p, AfterOco(
                  Submitted(f, Order("oco", "sell", f.amount, e, acc)), e))
    /\ UNCHANGED <<current_position, market_info, fixed, runs, limited>>

\* the sizer applied to the drawn inputs: the quantized amount and whether
\* the minimum check let it pass
SizeCall ==
    /\ sizer.st = "in"
    /\ LET mi == [active |-> TRUE, step |-> sizer.step, min |-> sizer.min]
           amt == CalcAmount(sizer.balance, sizer.price, mi)
           g == AfterSize(IdleFrame, amt, mi)
       IN sizer' = [sizer EXCEPT
                      !.st = IF g.sizerRejected THEN "rejected" ELSE "ok",
                      !.out = amt]
    /\ UNCHANGED <<current_position, market_info, symbol, engine,
                   startup_position, frame, active, runs, limited, faults>>

Next ==
    \/ LoadMarketInfo
    \/ \E p \in Threads : CallProcessSignal(p)
    \/ \E p \in Threads : CallEmergencyClose(p)
    \/ \E p \in Threads : PsCheck(p)
    \/ \E p \in Threads : EcCheck(p)
    \/ \E p \in Threads : EcBalance(p)
    \/ \E p \in Threads : EcPrice(p)
    \/ \E p \in Threads : EcOrder(p)
    \/ \E p \in Threads : EcSet(p)
    \/ \E p \in Threads : PsPrice(p)
    \/ \E p \in Threads : PsSize(p)
    \/ \E p \in Threads : PsOrder(p)
    \/ \E p \in Threads : PsSet(p)
    \/ \E p \in Threads : OcoOrder(p)

Spec == Init /\ [][Next]_vars

SpecConc == InitConc /\ [][Next]_vars

SpecRestart == InitRestart /\ [][Next]_vars

NextSizer == SizeCall

SpecSizer == InitSizer /\ [][NextSizer]_vars

TypeOK ==
    /\ current_position \in {"None", "buy", "sell"}
    /\ market_info \in MarketInfos \cup {NoMarket}
    /\ symbol = TradingSymbol
    /\ engine.status \in {"new", "ready", "inactive", "unreachable"}
    /\ engine.tries \in 0..LoadMaxTries
    /\ startup_position \in Positions
    /\ runs \in 0..MaxRuns
    /\ active \subseteq Threads
    /\ \A p \in Threads : frame[p].ecTries \in 0..EcMaxTries

\* ------------------------------------------------------- claim vocabulary

Done(p) == frame[p].pc = "done"
IsSignalRun(p) ==
    frame[p].op = "process_signal" /\ frame[p].signal \in {"buy", "sell"}
Last(sq) == sq[Len(sq)]
Idx(f, kind) == {i \in DOMAIN f.orders : f.orders[i].kind = kind}
Confirmed(f, kind) == {i \in Idx(f, kind) : f.orders[i].err = "none"}
Failed(f, kind) == {i \in Idx(f, kind) : f.orders[i].err # "none"}
InEc(f) == f.pc \in {"ec_check", "ec_bal", "ec_price", "ec_order", "ec_set"}

\* ---------------------------------------------------------------- claims

\* C1: current_position changes only in the step of an invocation that comes
\* right after its own create_order returned successfully (the entry order in
\* process_signal, the flattening order in _emergency_close), and the step in
\* which a create_order fails leaves current_position as it was.
C1_PositionChangesOnlyAfterConfirmedOrder ==
    [][ /\ current_position' # current_position =>
             \E p \in Threads :
                /\ frame[p].pc \in {"ps_set", "ec_set"}
                /\ frame'[p] # frame[p]
                /\ frame[p].orders # <<>>
                /\ Last(frame[p].orders).err = "none"
                /\ Last(frame[p].orders).kind =
                       IF frame[p].pc = "ps_set" THEN "entry" ELSE "close"
        /\ \A p \in Threads :
             ( /\ frame[p].pc \in {"ps_order", "ec_order", "oco_order"}
               /\ frame'[p] # frame[p]
               /\ Last(frame'[p].orders).err # "none" )
             => current_position' = current_position
      ]_vars

\* a sell on LONG whose close was confirmed (the position changed to FLAT) and
\* whose entry order then failed: the position stays FLAT
C1_Witness ==
    \E p \in Threads :
       /\ Done(p) /\ frame[p].startPos = "buy" /\ frame[p].signal = "sell"
       /\ Confirmed(frame[p], "close") # {}
       /\ Failed(frame[p], "entry") # {}
       /\ current_position = "None"

\* C2: two opposing signals delivered concurrently to a FLAT engine never
\* both get an entry order confirmed without a close in between.
C2_AtMostOneOpened ==
    ~ \E p, q \in Threads :
         /\ p # q
         /\ IsSignalRun(p) /\ IsSignalRun(q)
         /\ frame[p].signal # frame[q].signal
         /\ frame[p].startPos = "None" /\ frame[q].startPos = "None"
         /\ Confirmed(frame[p], "entry") # {}
         /\ Confirmed(frame[q], "entry") # {}
         /\ Idx(frame[p], "close") = {} /\ Idx(frame[q], "close") = {}

\* C3: at most one process_signal / _emergency_close execution is in progress
\* at any time.
C3_MutualExclusion ==
    \A p, q \in Threads : Running(p) /\ Running(q) => p = q

\* C4: in a process_signal(s) run started with the opposite side held, an
\* entry order is submitted only after a confirmed close (the first order of
\* the run) with current_position FLAT at that moment, never after a failed
\* close; a successful 'sell' on LONG is close-sell, entry-sell, bracket, and
\* ends SHORT.
C4_CloseBeforeEntry ==
    \A p \in Threads :
       LET f == frame[p] IN
       (IsSignalRun(p) /\ f.startPos \notin {"None", f.signal}) =>
          /\ f.pc \in {"ps_price", "ps_bal", "ps_order"} =>
                /\ current_position = "None"
                /\ Len(f.orders) = 1
          /\ \A i \in Idx(f, "entry") :
                /\ i = 2
                /\ f.orders[i].side = f.signal
                /\ f.orders[1].kind = "close"
                /\ f.orders[1].ctx = "conflict"
                /\ f.orders[1].side = CloseSide(f.startPos)
                /\ f.orders[1].err = "none"
          /\ (Done(p) /\ f.result = "True" /\ f.signal = "sell") =>
                /\ Len(f.orders) = 3
                /\ f.orders[1].kind = "close" /\ f.orders[1].side = "sell"
                /\ f.orders[2].kind = "entry" /\ f.orders[2].side = "sell"
                /\ f.orders[3].kind = "oco"
                /\ current_position = "sell"

\* a successful sell on LONG
C4_Witness ==
    \E p \in Threads :
       /\ Done(p) /\ frame[p].startPos = "buy" /\ frame[p].signal = "sell"
       /\ frame[p].result = "True"
       /\ current_position = "sell"

\* a sell on LONG whose close failed: the run is over with the position held
C4_WitnessCloseFailed ==
    \E p \in Threads :
       /\ Done(p) /\ frame[p].startPos = "buy" /\ frame[p].signal = "sell"
       /\ Failed(frame[p], "close") # {}
       /\ frame[p].ecFailed
       /\ current_position = "buy"

\* C5: an invocation in which every gateway call failed with a NetworkError
\* has made exactly the maxAttempts gateway calls of its retry-guarded
\* operation (max_tries of _emergency_close when it ran, of
\* _get_current_price otherwise) and ended with a network error.
C5_ExactlyMaxAttempts ==
    \A p \in Threads :
       LET f == frame[p] IN
       (Done(p) /\ f.allNet /\ f.netCalls > 0) =>
          /\ f.result = "raise NetworkError"
          /\ f.netCalls = IF f.ecCalls > 0 THEN EcMaxTries ELSE PriceMaxTries

\* C6: after a failed bracket order _emergency_close runs with the position
\* still on the entry side, nothing but its flattening orders follows the
\* bracket order, and when it succeeds the run ends FLAT without success.
C6_BracketFailureFlattens ==
    \A p \in Threads :
       LET f == frame[p] IN
       (IsSignalRun(p) /\ Failed(f, "oco") # {}) =>
          /\ f.ecCalls >= 1
          /\ (f.pc = "ec_check" /\ f.ecCtx = "oco" /\ f.ecTries = 1) =>
                (current_position = f.signal /\ ~f.ecFailed)
          /\ Confirmed(f, "entry") # {}
          /\ \A i \in Failed(f, "oco") : \A j \in DOMAIN f.orders :
                j > i => ( /\ f.orders[j].kind = "close"
                           /\ f.orders[j].ctx \in {"oco", "handler"}
                           /\ f.orders[j].side = CloseSide(f.signal) )
          /\ (Done(p) /\ ~f.ecFailed) =>
                /\ current_position = "None"
                /\ f.result \in {"False", "raise NetworkError"}

\* a run whose bracket order failed and whose emergency close flattened
C6_Witness ==
    \E p \in Threads :
       /\ Done(p) /\ IsSignalRun(p)
       /\ Failed(frame[p], "oco") # {}
       /\ ~frame[p].ecFailed
       /\ Confirmed(frame[p], "close") # {}
       /\ current_position = "None"
       /\ frame[p].result = "False"

\* C7: every process_signal run that ends without success has invoked
\* _emergency_close during the run.
C7_ErrorInvokesEmergencyClose ==
    \A p \in Threads :
       (Done(p) /\ IsSignalRun(p) /\ frame[p].result # "True") =>
          frame[p].ecCalls >= 1

\* C8: a process_signal run in which _emergency_close failed and that leaves
\* a position held ends with an outcome other than those of an ordinary
\* failure (False, as for an invalid signal; NetworkError, as for a failed
\* price fetch).
C8_DistinctEmergencyCloseFailed ==
    \A p \in Threads :
       ( /\ Done(p) /\ IsSignalRun(p)
         /\ frame[p].ecFailed
         /\ current_position # "None" ) =>
          frame[p].result \notin {"False", "raise NetworkError"}

\* C9: the exchange accepts at most one entry order of a process_signal run
\* and at most one flattening order of an _emergency_close invocation.
C9_NoDuplicateOrder ==
    \A p \in Threads :
       /\ frame[p].ecAcc <= 1
       /\ Cardinality({i \in Idx(frame[p], "entry") :
                          frame[p].orders[i].acc}) <= 1

C11_AlwaysReturnsResult ==
    \A p \in Threads :
       (Done(p) /\ frame[p].op = "process_signal") =>
          frame[p].result \in {"True", "False"}

\* the gateway calls an invocation has made so far: none at all
NoGatewayCall(f) == f.allNet /\ f.netCalls = 0 /\ f.orders = <<>>

\* C13: _emergency_close invoked on a FLAT position returns normally, makes
\* no gateway call and leaves current_position FLAT, however often and after
\* whatever it is called.
C13_FlatCloseIsNoOp ==
    \A p \in Threads :
       LET f == frame[p] IN
       (f.op = "_emergency_close" /\ f.startPos = "None") =>
          /\ f.pc \in {"ec_check", "done"}
          /\ NoGatewayCall(f)
          /\ current_position = "None"
          /\ Done(p) => f.result = "None"

\* the second of two invocations was an _emergency_close on FLAT
C13_Witness ==
    \E p \in Threads :
       /\ Done(p) /\ frame[p].op = "_emergency_close"
       /\ frame[p].startPos = "None" /\ frame[p].result = "None"
       /\ runs = 2

\* C14: a process_signal(s) run that returns True has submitted exactly one
\* entry order, of side s, and right after it exactly one bracket order, both
\* confirmed, and leaves current_position = s.
C14_SuccessMeansEntryThenBracket ==
    \A p \in Threads :
       LET f == frame[p] IN
       (Done(p) /\ f.op = "process_signal" /\ f.result = "True") =>
          /\ f.signal \in {"buy", "sell"}
          /\ Cardinality(Idx(f, "entry")) = 1
          /\ Cardinality(Idx(f, "oco")) = 1
          /\ Len(f.orders) >= 2
          /\ f.orders[Len(f.orders)].kind = "oco"
          /\ f.orders[Len(f.orders)].err = "none"
          /\ f.orders[Len(f.orders) - 1].kind = "entry"
          /\ f.orders[Len(f.orders) - 1].err = "none"
          /\ f.orders[Len(f.orders) - 1].side = f.signal
          /\ current_position = f.signal

\* a successful buy on SHORT
C14_Witness ==
    \E p \in Threads :
       /\ Done(p) /\ frame[p].result = "True"
       /\ frame[p].startPos = "sell" /\ frame[p].signal = "buy"
       /\ current_position = "buy"

\* C16: a process_signal run whose signal is neither 'buy' nor 'sell' never
\* enters the pipeline: it returns False, makes no gateway call, calls no
\* _emergency_close and leaves current_position as it was.
C16_InvalidSignalRejected ==
    \A p \in Threads :
       LET f == frame[p] IN
       (f.op = "process_signal" /\ f.signal \notin {"buy", "sell"}) =>
          /\ f.pc \in {"ps_check", "done"}
          /\ NoGatewayCall(f)
          /\ f.ecCalls = 0
          /\ current_position = f.startPos
          /\ Done(p) => f.result = "False"

\* an invalid signal rejected while LONG
C16_Witness ==
    \E p \in Threads :
       /\ Done(p) /\ frame[p].op = "process_signal"
       /\ frame[p].signal = "hold" /\ frame[p].startPos = "buy"
       /\ frame[p].result = "False" /\ current_position = "buy"

\* C20: every bracket order is an exit for the entry of its run: its side is
\* opposite to the entry side and its amount is the entry amount.
C20_BracketIsExit ==
    \A p \in Threads :
       LET f == frame[p] IN
       \A i \in Idx(f, "oco") :
          /\ i > 1
          /\ f.orders[i - 1].kind = "entry"
          /\ f.orders[i].side = CloseSide(f.orders[i - 1].side)
          /\ f.orders[i].amount = f.orders[i - 1].amount

\* C12: an emergency close that flattens a position opened in the same run
\* has submitted exactly one order, on the side opposite to the entry, for
\* the amount of the entry.
C12_CloseFullHeldAmount ==
    \A p \in Threads :
       LET f == frame[p] IN
       (f.pc = "ec_set" /\ Confirmed(f, "entry") # {}) =>
          \A i \in Confirmed(f, "entry") :
             /\ Last(f.orders).kind = "close"
             /\ Last(f.orders).side = CloseSide(f.orders[i].side)
             /\ f.ecAmount.num = f.orders[i].amount * f.ecAmount.den
             /\ f.ecSub = 1

\* C15 as stated: the sizer fails exactly when the quantized amount is below
\* min, and otherwise returns a multiple of step that is at least min, at
\* most balance * 0.9 / price and less than one step below that bound.
C15_SizerWithinOneStep ==
    sizer.st \in {"ok", "rejected"} =>
       /\ (sizer.st = "rejected") <=> (sizer.out < sizer.min)
       /\ sizer.st = "ok" =>
             /\ sizer.out % sizer.step = 0
             /\ sizer.out >= sizer.min
             /\ sizer.out * RiskDen * sizer.price <= sizer.balance * RiskNum
             /\ sizer.balance * RiskNum <
                   (sizer.out + sizer.step) * RiskDen * sizer.price

\* C15 as amended: the same, with the bound taken on the fee-adjusted
\* balance: the amount is at most balance * 0.999 * 0.9 / price (so also at
\* most balance * 0.9 / price) and less than one step below that.
C15_SizerAmended ==
    sizer.st \in {"ok", "rejected"} =>
       /\ (sizer.st = "rejected") <=> (sizer.out < sizer.min)
       /\ sizer.st = "ok" =>
             /\ sizer.out % sizer.step = 0
             /\ sizer.out >= sizer.min
             /\ sizer.out * RiskDen * sizer.price <= sizer.balance * RiskNum
             /\ sizer.out * FeeDen * RiskDen * sizer.price <=
                   sizer.balance * FeeNum * RiskNum
             /\ sizer.balance * FeeNum * RiskNum <
                   (sizer.out + sizer.step) * FeeDen * RiskDen * sizer.price

\* the sizer accepted an amount that is a whole step below balance*0.9/price
C15_Witness ==
    /\ sizer.st = "ok"
    /\ sizer.balance = 10 /\ sizer.price = 1 /\ sizer.step = 1
    /\ sizer.out = 8

\* the sizer rejected an amount below the minimum
C15_WitnessRejected ==
    /\ sizer.st = "rejected"
    /\ sizer.out > 0
    /\ sizer.out < sizer.min

\* C17: once the engine is constructed and before any invocation, its
\* position record is FLAT only if the exchange holds no position.
C17_ReconciledAtStartup ==
    (engine.status = "ready" /\ runs = 0) =>
       (current_position = "None" => startup_position = "None")

\* C18: no step of process_signal or _emergency_close changes symbol or
\* market_info.
C18_OnlyPositionChanges ==
    [][ frame' # frame => (symbol' = symbol /\ market_info' = market_info)
      ]_vars

\* an invocation that moved the position is over, then one that failed
C18_Witness ==
    \E p \in Threads :
       /\ Done(p) /\ runs = 2
       /\ frame[p].startPos = "buy" /\ current_position = "None"
       /\ frame[p].result # "True"
       /\ symbol = TradingSymbol /\ market_info \in MarketInfos

\* C19: when the loaded market is inactive the construction fails and no
\* invocation ever takes place; every invocation, and so every order, is on
\* an engine whose market_info is active.
C19_NoTradeOnInactiveMarket ==
    /\ engine.status = "inactive" =>
          /\ runs = 0
          /\ \A p \in Threads : frame[p] = IdleFrame
    /\ \A p \in Threads :
          frame[p].pc # "idle" =>
             (engine.status = "ready" /\ market_info.active)

\* the construction failed on an inactive market
C19_Witness ==
    /\ engine.status = "inactive"
    /\ market_info = NoMarket
    /\ runs = 0

\* orders were submitted on an active market
C19_WitnessTraded ==
    \E p \in Threads :
       /\ frame[p].orders # <<>>
       /\ engine.status = "ready" /\ market_info.active
====
